---- MODULE Spec2Model ----
(***************************************************************************)
(* Model of mcp-server-eol: EndOfLifeClient.check_support_status, the      *)
(* record scan it runs over a product's cycle list, and the two status     *)
(* evaluators _is_version_supported and _is_version_eol                    *)
(* (src/src/mcp_server_eol/client.py).                                     *)
(*                                                                         *)
(* Strings that are compared or prefix-tested (cycle, latest, version)     *)
(* are sequences of one-character strings.  The values of eol and support  *)
(* are a tagged union: absent, boolean, date value, or a string; a string  *)
(* is its lexical form together with the calendar day it spells.  Days     *)
(* are numbered 0..MaxDay.  The catalog is an external service: what it    *)
(* answers to a request is an input of the step that receives the answer.  *)
(***************************************************************************)
EXTENDS Integers, Sequences, FiniteSets, TLC

VARIABLES
    today,        \* the calendar date date.today() returns now
    pc,           \* position of the check_support_status call
    product,      \* argument product
    version,      \* argument version
    requests,     \* HTTP GETs the call has issued, in order
    responses,    \* what the catalog answered to them, in order
    versions_data, \* response.json() of the list fetch, as received
    versions,     \* product_info.versions once the list was fetched
    matched,      \* index at which the for loop returned, 0 if it has not
    cycle_info,   \* the CycleInfo being evaluated, or None
    is_supported, \* value of _is_version_supported(...) once evaluated
    todaySup,     \* what date.today() returned inside _is_version_supported
    todayEol,     \* what date.today() returned inside _is_version_eol
    result,       \* the SupportStatus returned, or None
    error,        \* the exception that escaped the call, or None
    op,           \* the client method that is running, "none" when idle
    query,        \* argument query of search_products
    all_products, \* response.json() of the all-products fetch
    eol_client,   \* server.py's global eol_client is set
    tool,         \* the handle_call_tool invocation in progress, or None
    payload,      \* what handle_call_tool gave back, or None
    catalog,      \* concurrent calls: what the catalog holds, and the date
    calls,        \* concurrent calls: the frame of each call
    asked,        \* concurrent calls: what each caller passed, and when
    fetches,      \* concurrent calls: number of GETs the catalog has served
    uri,          \* the URI handle_read_resource is reading, or NoURI
    document,     \* what handle_read_resource gave back or raised, or None
    record,       \* status over time: the CycleInfo that is evaluated
    evaluated     \* status over time: the evaluations so far, in order

\* The locals the list fetch sets beside versions.
scanVars == <<versions_data, matched>>

\* The state of check_support_status calls that run concurrently.
concVars == <<catalog, calls, asked, fetches>>

\* The state of the repeated evaluation of one record.
timeVars == <<record, evaluated>>

\* What belongs to the other specifications.
asideVars == <<concVars, timeVars>>

\* What check_support_status's own steps leave alone.
restVars == <<op, query, all_products, eol_client, tool, payload, uri,
              document, asideVars>>

\* What concurrent calls leave alone.
clientVarsOnly == <<today, pc, product, version, requests, responses, versions,
                    cycle_info, is_supported, todaySup, todayEol, result,
                    error, scanVars, op, query, all_products, eol_client,
                    tool, payload, uri, document>>

\* The state of one call at a time.
clientVars == <<today, pc, product, version, requests, responses, versions,
                cycle_info, is_supported, todaySup, todayEol, result, error,
                scanVars, restVars>>

vars == <<clientVars, asideVars>>

-----------------------------------------------------------------------------
(* Bounds *)

MaxDay == 2

MaxRecords == 3

MaxProducts == 2

NumCalls == 2

Days == 0..MaxDay

-----------------------------------------------------------------------------
(* Values *)

None == [tag |-> "none"]

\* No resource is being read.
NoURI == <<>>

Bool(b) == [tag |-> "bool", val |-> b]

DateVal(d) == [tag |-> "date", day |-> d]

\* A string held by eol or support: "date" is YYYY-MM-DD, "datetimeZ" is
\* YYYY-MM-DDTHH:MM:SSZ, "datetimeOffset" is YYYY-MM-DDTHH:MM:SS+00:00,
\* "text" is anything fromisoformat rejects ("Unknown", "", "2027-10").
DateStr(form, d) == [tag |-> "str", form |-> form, day |-> d]

\* A cycle / latest / version string.
Str(s) == [tag |-> "str", s |-> s]

V3 == <<"3">>

V31 == <<"3", ".", "1">>

V311 == <<"3", ".", "1", "1">>

V4 == <<"4">>

Products == {"python", "nodejs"}

RequestedVersions == {V3, V31, V4}

FieldValues ==
    {None, Bool(TRUE), Bool(FALSE)}
      \cup {DateVal(d) : d \in Days}
      \cup {DateStr("date", d) : d \in Days}
      \cup {DateStr("datetimeZ", d) : d \in Days}
      \cup {DateStr("text", 0)}

LatestValues == {None, Str(V31)}

\* JSON body of GET /{product}/{cycle}.json: the cycle's fields, no cycle key.
CycleBodies ==
    [latest : LatestValues, eol : FieldValues, support : FieldValues]

\* Raw mappings of GET /{product}.json; cycle = None is a missing cycle key.
ListedFields ==
    { <<DateStr("date", 1), DateStr("date", 0)>> }

RawCycles ==
    { [cycle |-> Str(c), latest |-> l, eol |-> f[1], support |-> f[2]] :
        c \in {V3, V31, V311}, l \in LatestValues, f \in ListedFields }
      \cup { [cycle |-> None, latest |-> None, eol |-> None, support |-> None] }

RawLists == UNION { [1..n -> RawCycles] : n \in 0..MaxRecords }

\* Product names of GET /all.json and search queries, letter by letter.
ProductNames == { <<"p", "y">>, <<"P", "Y", "n">>, <<"n", "o">> }

Queries == { <<"P", "y">>, <<"y", "n">>, <<"o", "p">>, <<>> }

ProductLists == UNION { [1..n -> ProductNames] : n \in 0..MaxProducts }

\* What the catalog can answer to a GET.
ProductsResponses ==
    { [kind |-> "http", status |-> 200, body |-> l] : l \in ProductLists }
      \cup { [kind |-> "http", status |-> 500], [kind |-> "transport"] }

CycleResponses ==
    { [kind |-> "http", status |-> 200, body |-> b] : b \in CycleBodies }
      \cup { [kind |-> "http", status |-> 404], [kind |-> "http", status |-> 500],
             [kind |-> "transport"] }

ListResponses ==
    { [kind |-> "http", status |-> 200, body |-> l] : l \in RawLists }
      \cup { [kind |-> "http", status |-> 404], [kind |-> "http", status |-> 500],
             [kind |-> "transport"] }

\* The status line of an answer, without its body.
Answer(resp) ==
    IF resp.kind = "http" THEN [kind |-> "http", status |-> resp.status]
    ELSE [kind |-> "transport"]

HTTPStatusError(code) == [type |-> "HTTPStatusError", status |-> code]

TransportError == [type |-> "TransportError"]

ValidationError == [type |-> "ValidationError"]

-----------------------------------------------------------------------------
(* CycleInfo *)

\* CycleInfo(**mapping): cycle is required, the optional fields are kept.
CycleInfoValid(raw) == raw.cycle.tag = "str"

CycleInfo(raw) ==
    [cycle |-> raw.cycle.s, latest |-> raw.latest,
     eol |-> raw.eol, support |-> raw.support]

\* cycles = [CycleInfo(**version_data) for version_data in versions_data]
BuildCycles(raws) == [i \in 1..Len(raws) |-> CycleInfo(raws[i])]

AllValid(raws) == \A i \in 1..Len(raws) : CycleInfoValid(raws[i])

-----------------------------------------------------------------------------
(* Date parsing: datetime.fromisoformat(s.replace('Z', '+00:00')).date() *)

ReplaceZ(s) ==
    IF s.form = "datetimeZ" THEN [s EXCEPT !.form = "datetimeOffset"] ELSE s

FromIsoFormat(s) ==
    IF s.form \in {"date", "datetimeOffset"}
        THEN [ok |-> TRUE, day |-> s.day]
        ELSE [ok |-> FALSE, exc |-> "ValueError"]

ParseDate(s) == FromIsoFormat(ReplaceZ(s))

\* The date a str-or-date field denotes, or the exception parsing raises.
EndDate(v) ==
    IF v.tag = "str" THEN ParseDate(v) ELSE [ok |-> TRUE, day |-> v.day]

-----------------------------------------------------------------------------
(* Status evaluators *)

Returns(b) == [kind |-> "return", val |-> b]

Raises(e) == [kind |-> "raise", exc |-> e]

FallThrough == [kind |-> "fallthrough"]

\* Variant: the except clause names TypeError only.
CaughtOnlyTypeError == {"TypeError"}

\* except (ValueError, TypeError)
CaughtExceptions == {"ValueError", "TypeError"}

\* Variant: the last supported day is excluded.
StrictlyBefore(t, d) == t < d

\* Variant: only the end day itself counts.
OnTheDay(t, d) == t = d

\* date.today() <= support_end, date.today() <= eol_end
NotAfter(t, d) == t <= d

\* Variant: the end-of-life day itself counts as end-of-life.
NotBefore(t, d) == t >= d

\* date.today() > eol_end
StrictlyAfter(t, d) == t > d

\* The try block of _is_version_supported for a str-or-date field v: it
\* returns, or the except clause swallows the failure and control falls
\* through, or an exception the clause does not name escapes.
SupportedByDate(v, t) ==
    LET p == EndDate(v)
    IN  IF p.ok THEN Returns(NotAfter(t, p.day))
        ELSE IF p.exc \in CaughtExceptions THEN FallThrough
        ELSE Raises(p.exc)

\* Variant: a boolean support is not used and control falls through to eol.
SupportedBySupportNoBool(info, t) ==
    IF info.support.tag \in {"none", "bool"} THEN FallThrough
    ELSE SupportedByDate(info.support, t)

\* "Check support date"
SupportedBySupport(info, t) ==
    IF info.support.tag = "none" THEN FallThrough
    ELSE IF info.support.tag = "bool" THEN Returns(info.support.val)
    ELSE SupportedByDate(info.support, t)

\* Variant: the eol boolean is returned without inverting it.
SupportedByEolNotInverted(info, t) ==
    IF info.eol.tag = "none" THEN FallThrough
    ELSE IF info.eol.tag = "bool" THEN Returns(info.eol.val)
    ELSE SupportedByDate(info.eol, t)

\* "Check EOL date as fallback"
SupportedByEol(info, t) ==
    IF info.eol.tag = "none" THEN FallThrough
    ELSE IF info.eol.tag = "bool" THEN Returns(~info.eol.val)
    ELSE SupportedByDate(info.eol, t)

\* _is_version_supported(cycle_info), with date.today() = t
IsVersionSupported(info, t) ==
    LET s == SupportedBySupport(info, t)
        e == SupportedByEol(info, t)
    IN  IF s.kind # "fallthrough" THEN s
        ELSE IF e.kind # "fallthrough" THEN e
        ELSE Returns(FALSE)

\* The try block of _is_version_eol for a str-or-date eol.
EolByDate(v, t) ==
    LET p == EndDate(v)
    IN  IF p.ok THEN Returns(StrictlyAfter(t, p.day))
        ELSE IF p.exc \in CaughtExceptions THEN Returns(FALSE)
        ELSE Raises(p.exc)

\* Variant: no isinstance(eol_date, bool) branch; a boolean is neither str
\* nor date and reaches the final return False.
IsVersionEolNoBool(info, t) ==
    IF info.eol.tag \in {"none", "bool"} THEN Returns(FALSE)
    ELSE EolByDate(info.eol, t)

\* Variant: a support date later than the eol date is taken as the
\* end-of-life date.
IsVersionEolCrossField(info, t) ==
    IF info.eol.tag = "none" THEN Returns(FALSE)
    ELSE IF info.eol.tag = "bool" THEN Returns(info.eol.val)
    ELSE IF /\ info.support.tag \in {"str", "date"}
            /\ EndDate(info.support).ok
            /\ EndDate(info.eol).ok
            /\ EndDate(info.support).day > EndDate(info.eol).day
         THEN Returns(StrictlyAfter(t, EndDate(info.support).day))
    ELSE EolByDate(info.eol, t)

\* _is_version_eol(cycle_info), with date.today() = t
IsVersionEol(info, t) ==
    IF info.eol.tag = "none" THEN Returns(FALSE)
    ELSE IF info.eol.tag = "bool" THEN Returns(info.eol.val)
    ELSE EolByDate(info.eol, t)

-----------------------------------------------------------------------------
(* Record scan *)

\* str(cycle.cycle).startswith(version)
StartsWith(s, prefix) ==
    /\ Len(prefix) <= Len(s)
    /\ \A i \in 1..Len(prefix) : s[i] = prefix[i]

ExactMatch(cycle, v) == cycle.cycle = v

LatestMatch(cycle, v) == cycle.latest.tag = "str" /\ cycle.latest.s = v

\* Variant: the arguments of startswith are swapped.
PrefixMatchSwapped(cycle, v) == StartsWith(v, cycle.cycle)

PrefixMatch(cycle, v) == StartsWith(cycle.cycle, v)

\* The condition of the if inside the for loop.
Matches(cycle, v) ==
    ExactMatch(cycle, v) \/ LatestMatch(cycle, v) \/ PrefixMatch(cycle, v)

\* for cycle in product_info.versions: if ...: return.  The index of the
\* record the loop returns at, 0 when the loop runs to its end.
Scan(cycles, v) ==
    IF \E i \in 1..Len(cycles) : Matches(cycles[i], v)
        THEN CHOOSE i \in 1..Len(cycles) :
                /\ Matches(cycles[i], v)
                /\ \A j \in 1..(i - 1) : ~Matches(cycles[j], v)
        ELSE 0

-----------------------------------------------------------------------------
(* SupportStatus *)

\* Variant: the matched record's cycle is reported as the version.
FoundStatusCycleAsVersion(p, v, info, sup, eol) ==
    [product |-> p, version |-> info.cycle, found |-> TRUE,
     cycle_info |-> info, is_supported |-> sup, is_eol |-> eol]

FoundStatus(p, v, info, sup, eol) ==
    [product |-> p, version |-> v, found |-> TRUE, cycle_info |-> info,
     is_supported |-> sup, is_eol |-> eol]

\* Variant: an unknown version is reported as not end-of-life.
NotFoundStatusNotEol(p, v) ==
    [product |-> p, version |-> v, found |-> FALSE, cycle_info |-> None,
     is_supported |-> FALSE, is_eol |-> FALSE]

\* "Version not found"
NotFoundStatus(p, v) ==
    [product |-> p, version |-> v, found |-> FALSE, cycle_info |-> None,
     is_supported |-> FALSE, is_eol |-> TRUE]

-----------------------------------------------------------------------------
(* check_support_status *)

\* No call has been made.
InitClient ==
    /\ today = 0
    /\ pc = "idle"
    /\ product = "python"
    /\ version = V3
    /\ requests = <<>>
    /\ responses = <<>>
    /\ versions_data = <<>>
    /\ versions = <<>>
    /\ matched = 0
    /\ cycle_info = None
    /\ is_supported = FALSE
    /\ todaySup = -1
    /\ todayEol = -1
    /\ result = None
    /\ error = None
    /\ op = "none"
    /\ query = <<>>
    /\ all_products = <<>>
    /\ eol_client = FALSE
    /\ tool = None
    /\ payload = None
    /\ uri = NoURI
    /\ document = None

CallIds == 1..NumCalls

\* The locals of a check_support_status coroutine that has not started.
NewFrame ==
    [pc |-> "new", product |-> "python", version |-> V3, requests |-> <<>>,
     cycle_info |-> None, result |-> None, error |-> None]

NotAsked == [version |-> <<>>, during |-> {}]

InitCalls ==
    /\ calls = [c \in CallIds |-> NewFrame]
    /\ asked = [c \in CallIds |-> NotAsked]
    /\ fetches = 0

NoCatalog ==
    [cycles |-> [v \in RequestedVersions |-> [kind |-> "transport"]],
     list |-> [kind |-> "transport"], today |-> 0]

\* No record has been evaluated.
InitTime ==
    /\ record = None
    /\ evaluated = <<>>

Init ==
    /\ InitClient
    /\ InitCalls
    /\ InitTime
    /\ catalog = NoCatalog

\* The system clock reaches midnight.
Tick ==
    /\ today < MaxDay
    /\ today' = today + 1
    /\ UNCHANGED <<pc, product, version, requests, responses, versions,
                   cycle_info, is_supported, todaySup, todayEol, result, error,
                   scanVars, restVars>>

\* What no method changes when it is entered.
entryKept == <<today, responses, versions, cycle_info, is_supported, todaySup,
               todayEol, result, error, scanVars, all_products, eol_client,
               asideVars>>

\* check_support_status(p, v) is entered and awaits get_cycle_details:
\* GET {base_url}/{product}/{cycle}.json is sent.
StartCheck(p, v) ==
    /\ op' = "check_support_status"
    /\ pc' = "cycle_lookup"
    /\ product' = p
    /\ version' = v
    /\ requests' = <<"cycle">>
    /\ UNCHANGED <<entryKept, query>>

\* check_support_status(p, v) is called on the client.
Call(p, v) ==
    /\ eol_client
    /\ pc = "idle"
    /\ tool = None
    /\ uri = NoURI
    /\ StartCheck(p, v)
    /\ UNCHANGED <<tool, payload, uri, document>>

\* main(): eol_client = EndOfLifeClient()
Main ==
    /\ ~eol_client
    /\ payload = None
    /\ document = None
    /\ eol_client' = TRUE
    /\ UNCHANGED <<today, pc, product, version, requests, responses, versions,
                   cycle_info, is_supported, todaySup, todayEol, result, error,
                   scanVars, op, query, all_products, tool, payload, uri,
                   document, asideVars>>

\* The caller has taken the SupportStatus or the exception; the call's
\* frame is gone and the client is ready for the next call.
Finish ==
    /\ \/ tool = None /\ uri = NoURI /\ pc \in {"returned", "raised"}
       \/ payload # None
       \/ document # None
    /\ pc' = "idle"
    /\ op' = "none"
    /\ query' = <<>>
    /\ all_products' = <<>>
    /\ tool' = None
    /\ payload' = None
    /\ uri' = NoURI
    /\ document' = None
    /\ product' = "python"
    /\ version' = V3
    /\ requests' = <<>>
    /\ responses' = <<>>
    /\ versions_data' = <<>>
    /\ versions' = <<>>
    /\ matched' = 0
    /\ cycle_info' = None
    /\ is_supported' = FALSE
    /\ todaySup' = -1
    /\ todayEol' = -1
    /\ result' = None
    /\ error' = None
    /\ UNCHANGED <<today, eol_client, asideVars>>

\* The call leaves with exception e (logged and re-raised).
Raise(e) ==
    /\ pc' = "raised"
    /\ error' = e
    /\ UNCHANGED <<today, product, version, versions, cycle_info,
                   is_supported, todaySup, todayEol, result>>

\* Variant: the handler does not test status_code; every HTTP error of the
\* single-cycle lookup leads to the list fetch.
OnCycleResponseAnyStatus(resp) ==
    /\ responses' = Append(responses, Answer(resp))
    /\ UNCHANGED scanVars
    /\ IF resp.kind = "transport"
         THEN Raise(TransportError) /\ UNCHANGED requests
       ELSE IF resp.status = 200
         THEN /\ cycle_info' = [cycle |-> version, latest |-> resp.body.latest,
                                eol |-> resp.body.eol,
                                support |-> resp.body.support]
              /\ pc' = "eval_supported"
              /\ UNCHANGED <<today, product, version, requests, versions,
                             is_supported, todaySup, todayEol, result, error>>
       ELSE /\ pc' = "list_fetch"
            /\ requests' = Append(requests, "list")
            /\ UNCHANGED <<today, product, version, versions, cycle_info,
                           is_supported, todaySup, todayEol, result, error>>

\* get_cycle_details resumes with the catalog's answer.
OnCycleResponse(resp) ==
    /\ responses' = Append(responses, Answer(resp))
    /\ UNCHANGED scanVars
    /\ IF resp.kind = "transport"
         THEN Raise(TransportError) /\ UNCHANGED requests
       ELSE IF resp.status = 200
         THEN /\ cycle_info' = [cycle |-> version, latest |-> resp.body.latest,
                                eol |-> resp.body.eol,
                                support |-> resp.body.support]
              /\ pc' = "eval_supported"
              /\ UNCHANGED <<today, product, version, requests, versions,
                             is_supported, todaySup, todayEol, result, error>>
       ELSE IF resp.status = 404
         THEN /\ pc' = "list_fetch"
              /\ requests' = Append(requests, "list")
              /\ UNCHANGED <<today, product, version, versions, cycle_info,
                             is_supported, todaySup, todayEol, result, error>>
       ELSE Raise(HTTPStatusError(resp.status)) /\ UNCHANGED requests

\* get_product_versions resumes with the catalog's answer; on success the
\* for loop scans the records.
OnListResponse(resp) ==
    /\ responses' = Append(responses, Answer(resp))
    /\ UNCHANGED requests
    /\ IF resp.kind = "transport"
         THEN Raise(TransportError) /\ UNCHANGED scanVars
       ELSE IF resp.status # 200
         THEN Raise(HTTPStatusError(resp.status)) /\ UNCHANGED scanVars
       ELSE IF ~AllValid(resp.body)
         THEN /\ Raise(ValidationError)
              /\ versions_data' = resp.body
              /\ UNCHANGED matched
       ELSE LET cycles == BuildCycles(resp.body)
                i == Scan(cycles, version)
            IN  /\ versions_data' = resp.body
                /\ versions' = cycles
                /\ matched' = i
                /\ IF i = 0
                     THEN /\ result' = NotFoundStatus(product, version)
                          /\ pc' = "returned"
                          /\ UNCHANGED cycle_info
                     ELSE /\ cycle_info' = cycles[i]
                          /\ pc' = "eval_supported"
                          /\ UNCHANGED result
                /\ UNCHANGED <<today, product, version, is_supported,
                               todaySup, todayEol, error>>

-----------------------------------------------------------------------------
(* get_all_products, search_products, get_product_versions,               *)
(* get_cycle_details                                                       *)

\* str.lower(), on the letters used here
LowerChar(c) ==
    CASE c = "P" -> "p"
      [] c = "Y" -> "y"
      [] OTHER -> c

Lower(s) == [i \in 1..Len(s) |-> LowerChar(s[i])]

\* sub in s
Contains(s, sub) ==
    \E i \in 0..(Len(s) - Len(sub)) : SubSeq(s, i + 1, i + Len(sub)) = sub

\* Variant: the query is compared as typed.
QueryAsTyped(q) == q

\* query_lower = query.lower()
QueryLower(q) == Lower(q)

\* [product for product in all_products.products
\*  if query_lower in product.lower()]
MatchingProducts(products, q) ==
    SelectSeq(products, LAMBDA name : Contains(Lower(name), QueryLower(q)))

AllProductsResult(products) ==
    [products |-> products, count |-> Len(products)]

SearchResult(products, q) ==
    [results |-> MatchingProducts(products, q),
     count |-> Len(MatchingProducts(products, q)),
     query |-> q]

ProductInfo(p, cycles) ==
    [product |-> p, versions |-> cycles, count |-> Len(cycles)]

CycleDetails(p, c, body) ==
    [product |-> p, cycle |-> c,
     details |-> [cycle |-> c, latest |-> body.latest, eol |-> body.eol,
                  support |-> body.support]]

\* get_all_products() is entered: GET {base_url}/all.json is sent.
StartAllProducts ==
    /\ op' = "get_all_products"
    /\ pc' = "products_fetch"
    /\ requests' = <<"all">>
    /\ UNCHANGED <<entryKept, product, version, query>>

\* search_products(q) is entered and awaits get_all_products().
StartSearch(q) ==
    /\ op' = "search_products"
    /\ query' = q
    /\ pc' = "products_fetch"
    /\ requests' = <<"all">>
    /\ UNCHANGED <<entryKept, product, version>>

\* get_product_versions(p) is entered: GET {base_url}/{product}.json.
StartVersions(p) ==
    /\ op' = "get_product_versions"
    /\ product' = p
    /\ pc' = "versions_fetch"
    /\ requests' = <<"list">>
    /\ UNCHANGED <<entryKept, version, query>>

\* get_cycle_details(p, c) is entered: GET {base_url}/{product}/{cycle}.json.
StartDetails(p, c) ==
    /\ op' = "get_cycle_details"
    /\ product' = p
    /\ version' = c
    /\ pc' = "details_fetch"
    /\ requests' = <<"cycle">>
    /\ UNCHANGED <<entryKept, query>>

\* One of the four methods is called on the client.
ClientCall ==
    /\ eol_client
    /\ pc = "idle"
    /\ tool = None
    /\ uri = NoURI
    /\ UNCHANGED <<tool, payload, uri, document>>
    /\ \/ StartAllProducts
       \/ \E q \in Queries : StartSearch(q)
       \/ \E p \in Products : StartVersions(p)
       \/ \E p \in Products, c \in RequestedVersions : StartDetails(p, c)

\* get_all_products resumes with the catalog's answer; search_products
\* then filters the names.
OnProductsResponse(resp) ==
    /\ responses' = Append(responses, Answer(resp))
    /\ UNCHANGED <<requests, scanVars, op, query, eol_client, tool, payload,
                   uri, document, asideVars>>
    /\ IF resp.kind = "transport"
         THEN Raise(TransportError) /\ UNCHANGED all_products
       ELSE IF resp.status # 200
         THEN Raise(HTTPStatusError(resp.status)) /\ UNCHANGED all_products
       ELSE /\ all_products' = resp.body
            /\ result' = IF op = "search_products"
                            THEN SearchResult(resp.body, query)
                            ELSE AllProductsResult(resp.body)
            /\ pc' = "returned"
            /\ UNCHANGED <<today, product, version, versions, cycle_info,
                           is_supported, todaySup, todayEol, error>>

ProductsResponse ==
    /\ pc = "products_fetch"
    /\ \E resp \in ProductsResponses : OnProductsResponse(resp)

\* get_product_versions (called on its own) resumes.
OnVersionsResponse(resp) ==
    /\ responses' = Append(responses, Answer(resp))
    /\ UNCHANGED <<requests, matched, restVars>>
    /\ IF resp.kind = "transport"
         THEN Raise(TransportError) /\ UNCHANGED versions_data
       ELSE IF resp.status # 200
         THEN Raise(HTTPStatusError(resp.status)) /\ UNCHANGED versions_data
       ELSE IF ~AllValid(resp.body)
         THEN Raise(ValidationError) /\ versions_data' = resp.body
       ELSE /\ versions_data' = resp.body
            /\ versions' = BuildCycles(resp.body)
            /\ result' = ProductInfo(product, BuildCycles(resp.body))
            /\ pc' = "returned"
            /\ UNCHANGED <<today, product, version, cycle_info,
                           is_supported, todaySup, todayEol, error>>

VersionsResponse ==
    /\ pc = "versions_fetch"
    /\ \E resp \in ListResponses : OnVersionsResponse(resp)

\* get_cycle_details (called on its own) resumes.
OnDetailsResponse(resp) ==
    /\ responses' = Append(responses, Answer(resp))
    /\ UNCHANGED <<requests, scanVars, restVars>>
    /\ IF resp.kind = "transport"
         THEN Raise(TransportError)
       ELSE IF resp.status # 200
         THEN Raise(HTTPStatusError(resp.status))
       ELSE /\ result' = CycleDetails(product, version, resp.body)
            /\ pc' = "returned"
            /\ UNCHANGED <<today, product, version, versions, cycle_info,
                           is_supported, todaySup, todayEol, error>>

DetailsResponse ==
    /\ pc = "details_fetch"
    /\ \E resp \in CycleResponses : OnDetailsResponse(resp)

-----------------------------------------------------------------------------
(* handle_list_tools, handle_call_tool *)

ValueError(text) == [type |-> "ValueError", text |-> text]

RuntimeError(text) == [type |-> "RuntimeError", text |-> text]

\* str(e), as the pieces of the message
StrOf(e) ==
    CASE e.type \in {"ValueError", "RuntimeError"} -> e.text
      [] e.type = "HTTPStatusError" -> <<"HTTPStatusError", e.status>>
      [] OTHER -> <<e.type>>

ToolNames ==
    {"eol_get_all_products", "eol_get_product_versions",
     "eol_get_cycle_details", "eol_search_products",
     "eol_check_support_status"}

\* inputSchema["required"] of each Tool of handle_list_tools
RequiredArguments(name) ==
    CASE name = "eol_get_all_products" -> {}
      [] name = "eol_get_product_versions" -> {"product"}
      [] name = "eol_get_cycle_details" -> {"product", "cycle"}
      [] name = "eol_search_products" -> {"query"}
      [] name = "eol_check_support_status" -> {"product", "version"}
      [] OTHER -> {}

\* arguments.get(key) of each key: None where the key is missing.
NoArguments ==
    [product |-> None, cycle |-> None, version |-> None, query |-> None]

ProductArguments == {None, Str(""), Str("python")}

CycleArguments == {None, Str(<<>>), Str(V31)}

QueryArguments == {None, Str(<<>>), Str(<<"P", "y">>)}

\* The calls a peer sends: every tool, each of its arguments missing, empty
\* or given, and a name that handle_list_tools does not list.
ToolCalls ==
    { [name |-> "eol_get_all_products", arguments |-> NoArguments] }
      \cup { [name |-> "eol_get_product_versions",
              arguments |-> [NoArguments EXCEPT !.product = a]]
                : a \in ProductArguments }
      \cup { [name |-> "eol_get_cycle_details",
              arguments |-> [NoArguments EXCEPT !.product = a, !.cycle = c]]
                : a \in ProductArguments, c \in CycleArguments }
      \cup { [name |-> "eol_search_products",
              arguments |-> [NoArguments EXCEPT !.query = q]]
                : q \in QueryArguments }
      \cup { [name |-> "eol_check_support_status",
              arguments |-> [NoArguments EXCEPT !.product = a, !.version = c]]
                : a \in ProductArguments, c \in CycleArguments }
      \cup { [name |-> "eol_delete_product",
              arguments |-> [NoArguments EXCEPT !.product = a]]
                : a \in {None, Str("python")} }

\* not value, for a value that is None or a string; empty is "" written in
\* the representation of the argument
Falsy(value, empty) == value = None \/ value = Str(empty)

\* Variant: the exception leaves handle_call_tool.
Propagated(e, name, arguments) == [kind |-> "raise", error |-> e]

\* except Exception as e: the TextContent of
\* json.dumps({"error": str(e), "tool": name, "arguments": arguments})
ErrorPayload(e, name, arguments) ==
    [kind |-> "error", error |-> StrOf(e), tool |-> name,
     arguments |-> arguments]

\* the TextContent of result.model_dump_json(indent=2)
ResultPayload(r) == [kind |-> "result", text |-> r]

\* raise ValueError(...) before any client method is awaited
Reject(text, name, arguments) ==
    /\ payload' = ErrorPayload(ValueError(text), name, arguments)
    /\ UNCHANGED <<entryKept, pc, op, product, version, query, requests>>

\* handle_call_tool(name, arguments) runs up to its first await, or to its
\* return when an argument is refused.
HandleCallTool(name, arguments) ==
    /\ tool' = [name |-> name, arguments |-> arguments]
    /\ IF name = "eol_get_all_products"
         THEN StartAllProducts /\ UNCHANGED payload
       ELSE IF name = "eol_get_product_versions"
         THEN IF Falsy(arguments.product, "")
                THEN Reject(<<"Product name is required">>, name, arguments)
                ELSE StartVersions(arguments.product.s) /\ UNCHANGED payload
       ELSE IF name = "eol_get_cycle_details"
         THEN IF Falsy(arguments.product, "") \/ Falsy(arguments.cycle, <<>>)
                THEN Reject(<<"Both product and cycle are required">>,
                            name, arguments)
                ELSE /\ StartDetails(arguments.product.s, arguments.cycle.s)
                     /\ UNCHANGED payload
       ELSE IF name = "eol_search_products"
         THEN IF Falsy(arguments.query, <<>>)
                THEN Reject(<<"Search query is required">>, name, arguments)
                ELSE StartSearch(arguments.query.s) /\ UNCHANGED payload
       ELSE IF name = "eol_check_support_status"
         THEN IF Falsy(arguments.product, "") \/ Falsy(arguments.version, <<>>)
                THEN Reject(<<"Both product and version are required">>,
                            name, arguments)
                ELSE /\ StartCheck(arguments.product.s, arguments.version.s)
                     /\ UNCHANGED payload
       ELSE Reject(<<"Unknown tool: ", name>>, name, arguments)

\* A peer calls a tool of the initialized server.
CallTool ==
    /\ eol_client
    /\ pc = "idle"
    /\ tool = None
    /\ uri = NoURI
    /\ UNCHANGED <<uri, document>>
    /\ \E call \in ToolCalls : HandleCallTool(call.name, call.arguments)

\* handle_call_tool is called while eol_client is None: the RuntimeError is
\* raised outside the try block.
CallToolNotInitialized ==
    /\ ~eol_client
    /\ pc = "idle"
    /\ tool = None
    /\ uri = NoURI
    /\ UNCHANGED <<uri, document>>
    /\ \E call \in ToolCalls :
          /\ tool' = call
          /\ payload' = Propagated(RuntimeError(<<"Client not initialized">>),
                                   call.name, call.arguments)
    /\ UNCHANGED <<entryKept, pc, op, product, version, query, requests>>

\* The awaited client method has returned or raised: handle_call_tool
\* returns the dumped model, or the payload of its except clause.
ToolReturn ==
    /\ tool # None
    /\ payload = None
    /\ pc \in {"returned", "raised"}
    /\ payload' = IF pc = "returned" THEN ResultPayload(result)
                  ELSE ErrorPayload(error, tool.name, tool.arguments)
    /\ UNCHANGED <<entryKept, pc, op, product, version, query, requests, tool,
                   uri, document>>

-----------------------------------------------------------------------------
(* handle_list_resources, handle_read_resource *)

\* A URI is its text cut after "q=": the part before, then the part after.
ProductsURI == <<"eol://products">>

SearchURI == <<"eol://search">>

\* The uri of every Resource of handle_list_resources
ListedResources == {ProductsURI, SearchURI}

\* The URIs a peer asks for: the listed ones, a search with a query, and
\* one that is not known.
ResourceURIs ==
    ListedResources
      \cup { <<"eol://search?q=", <<"P", "y">> >>, <<"eol://versions">> }

\* uri.startswith("eol://search?q=")
StartsWithSearchQuery(u) == u[1] = "eol://search?q="

\* uri.split("q=", 1)[1]
QueryOf(u) == u[2]

TypeError(text) == [type |-> "TypeError", text |-> text]

\* len(m) of a pydantic model m: BaseModel defines no __len__.
LenOfModel(m) ==
    Raises(TypeError(<<"object of type has no len()">>))

\* json.dumps(d, indent=2) of a dict d that holds a pydantic model: the
\* default encoder refuses the object.
JsonDumpsWithModel(d) ==
    Raises(TypeError(<<"Object is not JSON serializable">>))

Raised(e) == [kind |-> "raise", error |-> e]

\* What handle_read_resource leaves with after evaluating the dict and
\* json.dumps(...), the dict's values being evaluated first.
DumpedOrRaised(length, d) ==
    IF length.kind = "raise" THEN Raised(length.exc)
    ELSE LET text == JsonDumpsWithModel(d)
         IN  IF text.kind = "raise" THEN Raised(text.exc)
             ELSE [kind |-> "document", text |-> text.val]

\* json.dumps({"products": products, "count": len(products), ...})
ProductsDocument(products) ==
    DumpedOrRaised(LenOfModel(products), [products |-> products])

\* json.dumps({"query": query, "results": results, "count": len(results)})
SearchDocument(q, results) ==
    DumpedOrRaised(LenOfModel(results), [query |-> q, results |-> results])

\* handle_read_resource(u) runs up to its first await, or to its raise when
\* the URI is not known.
HandleReadResource(u) ==
    /\ uri' = u
    /\ IF u = ProductsURI
         THEN StartAllProducts /\ UNCHANGED document
       ELSE IF StartsWithSearchQuery(u)
         THEN StartSearch(QueryOf(u)) /\ UNCHANGED document
       ELSE /\ document' = Raised(ValueError(<<"Unknown resource URI: ", u>>))
            /\ UNCHANGED <<entryKept, pc, op, product, version, query,
                           requests>>

\* A peer reads a resource of the initialized server.
ReadResource ==
    /\ eol_client
    /\ pc = "idle"
    /\ tool = None
    /\ uri = NoURI
    /\ UNCHANGED <<tool, payload>>
    /\ \E u \in ResourceURIs : HandleReadResource(u)

\* handle_read_resource is called while eol_client is None.
ReadResourceNotInitialized ==
    /\ ~eol_client
    /\ pc = "idle"
    /\ tool = None
    /\ uri = NoURI
    /\ \E u \in ResourceURIs : uri' = u
    /\ document' = Raised(RuntimeError(<<"Client not initialized">>))
    /\ UNCHANGED <<entryKept, pc, op, product, version, query, requests,
                   tool, payload>>

\* The awaited client method has returned or raised: handle_read_resource
\* builds its document, or the exception leaves it (there is no try).
ReadReturn ==
    /\ uri # NoURI
    /\ document = None
    /\ pc \in {"returned", "raised"}
    /\ document' = IF pc = "raised" THEN Raised(error)
                   ELSE IF uri = ProductsURI THEN ProductsDocument(result)
                   ELSE SearchDocument(QueryOf(uri), result)
    /\ UNCHANGED <<entryKept, pc, op, product, version, query, requests,
                   tool, payload, uri>>

-----------------------------------------------------------------------------
(* check_support_status, continued *)

CycleLookupResponse ==
    /\ pc = "cycle_lookup"
    /\ UNCHANGED restVars
    /\ \E resp \in CycleResponses : OnCycleResponse(resp)

ListResponse ==
    /\ pc = "list_fetch"
    /\ UNCHANGED restVars
    /\ \E resp \in ListResponses : OnListResponse(resp)

\* is_supported=self._is_version_supported(...)
EvalSupported ==
    /\ pc = "eval_supported"
    /\ UNCHANGED <<requests, responses, scanVars, restVars>>
    /\ LET o == IsVersionSupported(cycle_info, today)
       IN  IF o.kind = "raise"
             THEN Raise(o.exc)
             ELSE /\ is_supported' = o.val
                  /\ todaySup' = today
                  /\ pc' = "eval_eol"
                  /\ UNCHANGED <<today, product, version, versions,
                                 cycle_info, todayEol, result, error>>

\* is_eol=self._is_version_eol(...); return SupportStatus(found=True, ...)
EvalEol ==
    /\ pc = "eval_eol"
    /\ UNCHANGED <<requests, responses, scanVars, restVars>>
    /\ LET o == IsVersionEol(cycle_info, today)
       IN  IF o.kind = "raise"
             THEN Raise(o.exc)
             ELSE /\ todayEol' = today
                  /\ result' = FoundStatus(product, version, cycle_info,
                                           is_supported, o.val)
                  /\ pc' = "returned"
                  /\ UNCHANGED <<today, product, version, versions,
                                 cycle_info, is_supported, todaySup, error>>

Next ==
    \/ Main
    \/ Tick
    \/ \E p \in Products, v \in RequestedVersions : Call(p, v)
    \/ CycleLookupResponse
    \/ ListResponse
    \/ EvalSupported
    \/ EvalEol
    \/ ClientCall
    \/ ProductsResponse
    \/ VersionsResponse
    \/ DetailsResponse
    \/ CallTool
    \/ CallToolNotInitialized
    \/ ToolReturn
    \/ ReadResource
    \/ ReadResourceNotInitialized
    \/ ReadReturn
    \/ Finish

Spec == Init /\ [][Next]_vars

-----------------------------------------------------------------------------
(* check_support_status called concurrently: coroutines of one event loop, *)
(* each with its own locals, sharing the client and the catalog.  A        *)
(* coroutine runs from one await to the next without interruption.         *)

\* Answers of the catalog to GET /python/{cycle}.json.
ConcCycleAnswers ==
    [V3 : { [kind |-> "http", status |-> 404],
            [kind |-> "http", status |-> 200,
             body |-> [latest |-> None, eol |-> DateStr("date", 1),
                       support |-> None]] },
     V31 : { [kind |-> "http", status |-> 404],
             [kind |-> "http", status |-> 200,
              body |-> [latest |-> None, eol |-> Bool(FALSE),
                        support |-> DateStr("date", 0)]] },
     V4 : { [kind |-> "http", status |-> 404], [kind |-> "transport"] }]

ListedCycle(c, l) ==
    [cycle |-> Str(c), latest |-> l, eol |-> DateStr("date", 1),
     support |-> DateStr("date", 0)]

\* Answers of the catalog to GET /python.json.
ConcListAnswers ==
    { [kind |-> "http", status |-> 404],
      [kind |-> "transport"],
      [kind |-> "http", status |-> 200, body |-> <<>>],
      [kind |-> "http", status |-> 200,
       body |-> <<ListedCycle(V311, None), ListedCycle(V3, Str(V31))>>],
      [kind |-> "http", status |-> 200,
       body |-> <<[cycle |-> None, latest |-> None, eol |-> None,
                   support |-> None],
                  ListedCycle(V3, None)>>] }

\* A catalog that does not change, read on a date that does not change.
Catalogs ==
    { [cycles |-> [v \in RequestedVersions |->
                      IF v = V3 THEN a.V3 ELSE IF v = V31 THEN a.V31 ELSE a.V4],
       list |-> l, today |-> d] :
        a \in ConcCycleAnswers, l \in ConcListAnswers, d \in Days }

\* Variant: the locals are attributes of the shared client.
StoreShared(c, frame) == [d \in CallIds |-> frame]

\* Assignments of a coroutine go to its own locals.
Store(c, frame) == [calls EXCEPT ![c] = frame]

FrameRaise(frame, e) == [frame EXCEPT !.pc = "raised", !.error = e]

\* is_supported=..., is_eol=..., return SupportStatus(found=True, ...)
FrameEvaluate(frame, info, t) ==
    LET sup == IsVersionSupported(info, t)
        eol == IsVersionEol(info, t)
    IN  IF sup.kind = "raise"
          THEN FrameRaise([frame EXCEPT !.cycle_info = info], sup.exc)
        ELSE IF eol.kind = "raise"
          THEN FrameRaise([frame EXCEPT !.cycle_info = info], eol.exc)
        ELSE [frame EXCEPT
                !.cycle_info = info,
                !.pc = "returned",
                !.result = FoundStatus(frame.product, frame.version, info,
                                       sup.val, eol.val)]

\* The frame after get_cycle_details has resumed with resp on date t.
FrameAfterCycle(frame, resp, t) ==
    IF resp.kind = "transport" THEN FrameRaise(frame, TransportError)
    ELSE IF resp.status = 200
      THEN FrameEvaluate(frame,
                         [cycle |-> frame.version, latest |-> resp.body.latest,
                          eol |-> resp.body.eol, support |-> resp.body.support],
                         t)
    ELSE IF resp.status = 404
      THEN [frame EXCEPT !.pc = "list_fetch",
                         !.requests = Append(frame.requests, "list")]
    ELSE FrameRaise(frame, HTTPStatusError(resp.status))

\* The frame after get_product_versions has resumed with resp on date t.
FrameAfterList(frame, resp, t) ==
    IF resp.kind = "transport" THEN FrameRaise(frame, TransportError)
    ELSE IF resp.status # 200
      THEN FrameRaise(frame, HTTPStatusError(resp.status))
    ELSE IF ~AllValid(resp.body) THEN FrameRaise(frame, ValidationError)
    ELSE LET cycles == BuildCycles(resp.body)
             i == Scan(cycles, frame.version)
         IN  IF i = 0
               THEN [frame EXCEPT
                       !.pc = "returned",
                       !.result = NotFoundStatus(frame.product, frame.version)]
               ELSE FrameEvaluate(frame, cycles[i], t)

InFlight == { c \in CallIds : calls[c].pc \in {"cycle_lookup", "list_fetch"} }

\* A caller starts check_support_status("python", v): the coroutine runs to
\* its first await, the GET of the cycle.
ConcCall(c, v) ==
    /\ calls[c].pc = "new"
    /\ asked' = [asked EXCEPT ![c] = [version |-> v, during |-> InFlight]]
    /\ calls' = Store(c, [calls[c] EXCEPT !.pc = "cycle_lookup",
                                          !.version = v,
                                          !.requests = <<"cycle">>])
    /\ fetches' = fetches + 1
    /\ UNCHANGED catalog

\* The cycle lookup of call c is answered: the coroutine runs to its
\* return, its raise, or the await of the list fetch.
ConcCycleResponse(c) ==
    /\ calls[c].pc = "cycle_lookup"
    /\ LET frame == FrameAfterCycle(calls[c],
                                    catalog.cycles[calls[c].version],
                                    catalog.today)
       IN  /\ calls' = Store(c, frame)
           /\ fetches' = IF frame.pc = "list_fetch" THEN fetches + 1
                         ELSE fetches
    /\ UNCHANGED <<catalog, asked>>

\* The list fetch of call c is answered: the coroutine runs to its end.
ConcListResponse(c) ==
    /\ calls[c].pc = "list_fetch"
    /\ calls' = Store(c, FrameAfterList(calls[c], catalog.list, catalog.today))
    /\ UNCHANGED <<catalog, asked, fetches>>

ConcStart ==
    /\ UNCHANGED <<clientVarsOnly, timeVars>>
    /\ \E c \in CallIds, v \in RequestedVersions : ConcCall(c, v)

ConcCycle ==
    /\ UNCHANGED <<clientVarsOnly, timeVars>>
    /\ \E c \in CallIds : ConcCycleResponse(c)

ConcList ==
    /\ UNCHANGED <<clientVarsOnly, timeVars>>
    /\ \E c \in CallIds : ConcListResponse(c)

ConcInit ==
    /\ InitClient
    /\ InitCalls
    /\ InitTime
    /\ catalog \in Catalogs

ConcNext ==
    \/ ConcStart
    \/ ConcCycle
    \/ ConcList

ConcSpec == ConcInit /\ [][ConcNext]_vars

-----------------------------------------------------------------------------
(* _is_version_supported and _is_version_eol applied to one record on a    *)
(* sequence of later and later dates.                                      *)

\* The CycleInfo objects the two functions are given.
TimedRecords ==
    { [cycle |-> V31, latest |-> None, eol |-> e, support |-> s] :
        e \in FieldValues, s \in FieldValues }

\* Both functions are called on the record while date.today() is t.
EvaluateOn(t) ==
    /\ IF evaluated = <<>> THEN TRUE
       ELSE t > evaluated[Len(evaluated)].today
    /\ evaluated' = Append(evaluated,
                           [today |-> t,
                            is_supported |-> IsVersionSupported(record, t),
                            is_eol |-> IsVersionEol(record, t)])

Evaluate ==
    /\ UNCHANGED <<clientVarsOnly, concVars, record>>
    /\ \E t \in Days : EvaluateOn(t)

TimeInit ==
    /\ InitClient
    /\ InitCalls
    /\ catalog = NoCatalog
    /\ record \in TimedRecords
    /\ evaluated = <<>>

TimeNext == Evaluate

TimeSpec == TimeInit /\ [][TimeNext]_vars

-----------------------------------------------------------------------------
(* Vocabulary of the properties.  These are written from the statements,   *)
(* independently of the operators above.                                   *)

InCheck == op = "check_support_status"

Returned == InCheck /\ pc = "returned"

\* The list was fetched and the for loop has run over it.
Scanned ==
    /\ InCheck
    /\ Len(requests) = 2
    /\ pc \in {"eval_supported", "eval_eol", "returned"}

\* The call returned a record it found (by either path).
ReturnedFound == Returned /\ result.found

\* _is_version_supported has returned for the record in cycle_info.
SupportedEvaluated == pc \in {"eval_eol", "returned"} /\ cycle_info # None

IsPrefixOf(p, s) == Len(p) <= Len(s) /\ SubSeq(s, 1, Len(p)) = p

CycleEquals(r, v) == r.cycle = v

LatestEquals(r, v) == r.latest = Str(v)

CycleStartsWith(r, v) == IsPrefixOf(v, r.cycle)

MatchesAnyRule(r, v) ==
    CycleEquals(r, v) \/ LatestEquals(r, v) \/ CycleStartsWith(r, v)

\* A field that holds a calendar date: a date value, or a string that
\* spells one in ISO-8601 (with or without the trailing Z).
IsDate(f) ==
    \/ f.tag = "date"
    \/ f.tag = "str" /\ f.form \in {"date", "datetimeZ"}

\* A field that yields no usable value: absent, or a string that is no date.
Unusable(f) == f.tag = "none" \/ (f.tag = "str" /\ ~IsDate(f))

-----------------------------------------------------------------------------
(* C1 *)

\* C1: whenever the requested version matches no record of the fetched
\* cycle list (the empty list included), check_support_status has returned,
\* without raising, the result found=false, cycle_info absent,
\* is_supported=false, is_eol=true.
C1_NoMatchIsNotFound ==
    (Scanned /\ \A i \in 1..Len(versions) : ~MatchesAnyRule(versions[i], version))
      => /\ Returned
         /\ error = None
         /\ result = [product |-> product, version |-> version,
                      found |-> FALSE, cycle_info |-> None,
                      is_supported |-> FALSE, is_eol |-> TRUE]

\* A non-empty list none of whose records matches was scanned and the
\* not-found result came back.
C1_Witness ==
    /\ Scanned
    /\ Returned
    /\ Len(versions) = MaxRecords
    /\ \A i \in 1..Len(versions) : ~MatchesAnyRule(versions[i], version)
    /\ ~result.found

-----------------------------------------------------------------------------
(* C2, C3 *)

\* C2: exact over alias.  Whenever the scanned list holds a record whose
\* cycle equals the requested version, the record the scan returned has a
\* cycle equal to the requested version.
C2_ExactOverAlias ==
    (Scanned /\ \E i \in 1..Len(versions) : CycleEquals(versions[i], version))
      => (cycle_info # None /\ CycleEquals(cycle_info, version))

\* C3: alias over prefix.  Whenever no record's cycle equals the requested
\* version but some record's latest does, the record the scan returned has
\* a latest equal to the requested version.
C3_AliasOverPrefix ==
    ( /\ Scanned
      /\ \A i \in 1..Len(versions) : ~CycleEquals(versions[i], version)
      /\ \E i \in 1..Len(versions) : LatestEquals(versions[i], version) )
      => (cycle_info # None /\ LatestEquals(cycle_info, version))

-----------------------------------------------------------------------------
(* C4 *)

\* C4: for a record whose eol is a date D (a date value or a parseable
\* ISO-8601 string), is_eol is true exactly when the day _is_version_eol
\* read is strictly after D: false on D itself, true on D+1.
C4_EolStrictlyAfter ==
    (ReturnedFound /\ IsDate(result.cycle_info.eol))
      => (result.is_eol <=> todayEol > result.cycle_info.eol.day)

\* The boundary day: eol is a string spelling D, the evaluation ran on D
\* itself and the version is not yet end-of-life.
C4_Witness ==
    /\ ReturnedFound
    /\ result.cycle_info.eol.tag = "str"
    /\ IsDate(result.cycle_info.eol)
    /\ todayEol = result.cycle_info.eol.day
    /\ ~result.is_eol

-----------------------------------------------------------------------------
(* C5 *)

\* C5: with eol absent is_eol is false, with eol a boolean is_eol is that
\* boolean, on whatever day the evaluation runs.
C5_EolWithoutDate ==
    /\ (ReturnedFound /\ result.cycle_info.eol.tag = "none")
          => ~result.is_eol
    /\ (ReturnedFound /\ result.cycle_info.eol.tag = "bool")
          => (result.is_eol <=> result.cycle_info.eol.val)

\* eol: true evaluated on the first day of the calendar.
C5_Witness ==
    /\ ReturnedFound
    /\ result.cycle_info.eol = Bool(TRUE)
    /\ todayEol = 0
    /\ result.is_eol

-----------------------------------------------------------------------------
(* C6 *)

\* C6: when support is a boolean, is_supported is that boolean, whatever
\* eol holds and whatever the day.
C6_SupportBoolean ==
    /\ (SupportedEvaluated /\ cycle_info.support.tag = "bool")
          => (is_supported <=> cycle_info.support.val)
    /\ (ReturnedFound /\ result.cycle_info.support.tag = "bool")
          => (result.is_supported <=> result.cycle_info.support.val)

\* support: true wins over a contradicting eol: true.
C6_Witness ==
    /\ ReturnedFound
    /\ result.cycle_info.support = Bool(TRUE)
    /\ result.cycle_info.eol = Bool(TRUE)
    /\ result.is_supported
    /\ result.is_eol

-----------------------------------------------------------------------------
(* C7 *)

\* C7: when support is a parseable date D, is_supported is true exactly
\* when the day read is not after D, whatever eol holds; and a record with
\* support date < today <= eol date gives is_supported=false, is_eol=false.
C7_SupportDate ==
    /\ (SupportedEvaluated /\ IsDate(cycle_info.support))
          => (is_supported <=> todaySup <= cycle_info.support.day)
    /\ (ReturnedFound /\ IsDate(result.cycle_info.support))
          => (result.is_supported <=> todaySup <= result.cycle_info.support.day)
    /\ ( /\ ReturnedFound
         /\ IsDate(result.cycle_info.support)
         /\ IsDate(result.cycle_info.eol)
         /\ result.cycle_info.support.day < todaySup
         /\ todayEol <= result.cycle_info.eol.day )
          => (~result.is_supported /\ ~result.is_eol)

\* The security-only state: support ended, end of life not reached.
C7_Witness ==
    /\ ReturnedFound
    /\ IsDate(result.cycle_info.support)
    /\ IsDate(result.cycle_info.eol)
    /\ result.cycle_info.support.day < todaySup
    /\ todaySup = todayEol
    /\ todayEol <= result.cycle_info.eol.day
    /\ ~result.is_supported
    /\ ~result.is_eol

-----------------------------------------------------------------------------
(* C8 *)

\* C8: when support is absent or an unparseable string, an eol boolean b
\* gives is_supported = not b and an eol date D gives is_supported =
\* (day read <= D): true on D, false on D+1.
C8_FallbackToEol ==
    /\ (SupportedEvaluated /\ Unusable(cycle_info.support)
          /\ cycle_info.eol.tag = "bool")
          => (is_supported <=> ~cycle_info.eol.val)
    /\ (SupportedEvaluated /\ Unusable(cycle_info.support)
          /\ IsDate(cycle_info.eol))
          => (is_supported <=> todaySup <= cycle_info.eol.day)
    /\ (ReturnedFound /\ Unusable(result.cycle_info.support)
          /\ result.cycle_info.eol.tag = "bool")
          => (result.is_supported <=> ~result.cycle_info.eol.val)
    /\ (ReturnedFound /\ Unusable(result.cycle_info.support)
          /\ IsDate(result.cycle_info.eol))
          => (result.is_supported <=> todaySup <= result.cycle_info.eol.day)

\* An unparseable support string, and the eol date D evaluated on D itself.
C8_Witness ==
    /\ ReturnedFound
    /\ result.cycle_info.support.tag = "str"
    /\ Unusable(result.cycle_info.support)
    /\ IsDate(result.cycle_info.eol)
    /\ todaySup = result.cycle_info.eol.day
    /\ result.is_supported

-----------------------------------------------------------------------------
(* C9 *)

\* C9: if each of support and eol is absent or an unparseable string, no
\* error escapes either evaluation and the result is is_supported=false,
\* is_eol=false.
C9_UnparseableIsAbsent ==
    (cycle_info # None /\ Unusable(cycle_info.support) /\ Unusable(cycle_info.eol))
      => /\ pc # "raised"
         /\ error = None
         /\ pc = "eval_eol" => ~is_supported
         /\ Returned => (~result.is_supported /\ ~result.is_eol)

\* Both fields hold strings that are no dates.
C9_Witness ==
    /\ ReturnedFound
    /\ result.cycle_info.support.tag = "str"
    /\ result.cycle_info.eol.tag = "str"
    /\ Unusable(result.cycle_info.support)
    /\ Unusable(result.cycle_info.eol)
    /\ ~result.is_supported
    /\ ~result.is_eol

-----------------------------------------------------------------------------
(* C10 *)

\* C10: when the product is absent from the catalog (the single-cycle
\* lookup answers 404 and the cycle-list fetch answers 404 too), the call
\* returns a normal result with found=false and raises nothing.
C10_AbsentProductIsNotFound ==
    ( /\ Len(responses) = 2
      /\ responses[1] = [kind |-> "http", status |-> 404]
      /\ responses[2] = [kind |-> "http", status |-> 404] )
      => (Returned /\ ~result.found /\ error = None)

-----------------------------------------------------------------------------
(* Vocabulary of C11..C20 *)

Http(code) == [kind |-> "http", status |-> code]

\* The mappings of a fetched list that carry the required cycle key.
WellFormed(raws) == SelectSeq(raws, LAMBDA m : m.cycle.tag = "str")

\* The indices of the scanned records that satisfy one rule.
ExactAt == {i \in 1..Len(versions) : CycleEquals(versions[i], version)}

AliasAt == {i \in 1..Len(versions) : LatestEquals(versions[i], version)}

PrefixAt == {i \in 1..Len(versions) : CycleStartsWith(versions[i], version)}

Least(S) == CHOOSE i \in S : \A j \in S : i <= j

\* The evaluator of the design: evaluate(record, today).
ExpectedEol(eol, t) ==
    IF eol.tag = "bool" THEN eol.val
    ELSE IF IsDate(eol) THEN t > eol.day
    ELSE FALSE

ExpectedSupported(r, t) ==
    IF r.support.tag = "bool" THEN r.support.val
    ELSE IF IsDate(r.support) THEN t <= r.support.day
    ELSE IF r.eol.tag = "bool" THEN ~r.eol.val
    ELSE IF IsDate(r.eol) THEN t <= r.eol.day
    ELSE FALSE

-----------------------------------------------------------------------------
(* C11 *)

\* C11: a fetched list that holds a mapping without the cycle key beside
\* valid mappings does not fail the lookup: the malformed mapping is left
\* out and the scan runs over the valid records.
C11_MalformedExcluded ==
    ( /\ Len(responses) = 2
      /\ responses[2] = Http(200)
      /\ Len(WellFormed(versions_data)) \in 1..(Len(versions_data) - 1) )
      => /\ pc # "raised"
         /\ error = None
         /\ Len(versions) = Len(WellFormed(versions_data))

-----------------------------------------------------------------------------
(* C12 *)

\* C12: when no record matches exactly or through latest, a record whose
\* cycle starts with the requested version is returned as found; and a
\* record returned without an exact or latest match always has a cycle
\* that starts with the requested version.
C12_PrefixRule ==
    /\ (Scanned /\ ExactAt = {} /\ AliasAt = {} /\ PrefixAt # {})
          => /\ cycle_info # None
             /\ CycleStartsWith(cycle_info, version)
             /\ Returned => result.found
    /\ (Scanned /\ cycle_info # None
          /\ ~CycleEquals(cycle_info, version)
          /\ ~LatestEquals(cycle_info, version))
          => CycleStartsWith(cycle_info, version)

\* "3.1" was requested and the record of cycle "3.11" came back as found.
C12_Witness ==
    /\ Scanned
    /\ Returned
    /\ version = V31
    /\ ExactAt = {}
    /\ AliasAt = {}
    /\ result.found
    /\ result.cycle_info.cycle = V311

-----------------------------------------------------------------------------
(* C13 *)

\* C13: when several records satisfy the same rule and no record satisfies
\* a rule of higher precedence, the record returned is the one of smallest
\* index among them.
C13_TiesFirstInOrder ==
    /\ (Scanned /\ Cardinality(ExactAt) >= 2) => matched = Least(ExactAt)
    /\ (Scanned /\ ExactAt = {} /\ Cardinality(AliasAt) >= 2)
          => matched = Least(AliasAt)
    /\ (Scanned /\ ExactAt = {} /\ AliasAt = {} /\ Cardinality(PrefixAt) >= 2)
          => matched = Least(PrefixAt)

-----------------------------------------------------------------------------
(* C14 *)

\* C14: the pair (is_supported, is_eol) of a result is what the evaluator
\* gives for the matched record on one single day, also when midnight
\* passes while the check runs.
C14_OneDayPerResult ==
    ReturnedFound
      => \E t \in Days :
            /\ result.is_supported <=> ExpectedSupported(result.cycle_info, t)
            /\ result.is_eol <=> ExpectedEol(result.cycle_info.eol, t)

-----------------------------------------------------------------------------
(* C16 *)

\* C16: the cycle list is requested only after the single-cycle lookup
\* answered 404; a 404 leads to the list fetch, not to a failure; a
\* successful lookup returns found=true with no list fetch; any other HTTP
\* error status is raised, with no list fetch and no result.
C16_ListOnlyAfter404 ==
    /\ Len(requests) = 2
          => (InCheck /\ Len(responses) >= 1 /\ responses[1] = Http(404))
    /\ (InCheck /\ Len(responses) >= 1 /\ responses[1] = Http(404))
          => /\ requests = <<"cycle", "list">>
             /\ Len(responses) = 1 => (pc = "list_fetch" /\ error = None)
    /\ (InCheck /\ Len(responses) >= 1 /\ responses[1] = Http(200))
          => /\ requests = <<"cycle">>
             /\ pc # "raised"
             /\ Returned => result.found
    /\ (InCheck /\ Len(responses) >= 1 /\ responses[1].kind = "http"
          /\ responses[1].status \notin {200, 404})
          => /\ requests = <<"cycle">>
             /\ pc = "raised"
             /\ error = [type |-> "HTTPStatusError",
                         status |-> responses[1].status]
             /\ result = None

\* The single-cycle lookup answered 500 and the call raised it.
C16_Witness ==
    /\ InCheck
    /\ pc = "raised"
    /\ responses = <<Http(500)>>
    /\ requests = <<"cycle">>
    /\ error = [type |-> "HTTPStatusError", status |-> 500]

-----------------------------------------------------------------------------
(* C18 *)

\* C18: is_eol is a function of eol and the day alone, whatever support
\* holds; and a record whose support date is later than its eol date is
\* evaluated by the normal rules, never rejected.
C18_FieldsIndependent ==
    /\ ReturnedFound
          => (result.is_eol <=> ExpectedEol(result.cycle_info.eol, todayEol))
    /\ (cycle_info # None /\ IsDate(cycle_info.support) /\ IsDate(cycle_info.eol)
          /\ cycle_info.support.day > cycle_info.eol.day)
          => /\ pc # "raised"
             /\ SupportedEvaluated
                  => (is_supported <=> todaySup <= cycle_info.support.day)

\* support ends after eol: between the two dates the result is both
\* supported and end-of-life.
C18_Witness ==
    /\ ReturnedFound
    /\ IsDate(result.cycle_info.support)
    /\ IsDate(result.cycle_info.eol)
    /\ result.cycle_info.support.day > result.cycle_info.eol.day
    /\ todayEol > result.cycle_info.eol.day
    /\ todayEol <= result.cycle_info.support.day
    /\ result.is_supported
    /\ result.is_eol

-----------------------------------------------------------------------------
(* C20 *)

\* C20: every SupportStatus returned echoes the requested product and
\* version, has found=true exactly when cycle_info is present, and has
\* is_supported=false, is_eol=true when found=false.
C20_StatusShape ==
    Returned
      => /\ result.product = product
         /\ result.version = version
         /\ result.found <=> result.cycle_info # None
         /\ ~result.found => (~result.is_supported /\ result.is_eol)

\* A record found by the scan whose cycle is not the requested string.
C20_Witness ==
    /\ Returned
    /\ Scanned
    /\ result.found
    /\ result.cycle_info.cycle # version
    /\ result.version = version

-----------------------------------------------------------------------------
\* Vocabulary of C19, independent of the operators of search_products.

\* one letter, case folded
Fold(c) == IF c \in {"P", "p"} THEN "p" ELSE IF c \in {"Y", "y"} THEN "y" ELSE c

\* q occurs in s as a contiguous run of letters, case ignored
OccursIgnoringCase(q, s) ==
    \E start \in 1..(Len(s) + 1) :
        /\ start + Len(q) - 1 <= Len(s)
        /\ \A k \in 1..Len(q) : Fold(s[start + k - 1]) = Fold(q[k])

\* positions of the all-products list whose name matches the query
Kept == { i \in 1..Len(all_products) : OccursIgnoringCase(query, all_products[i]) }

SearchReturned == op = "search_products" /\ pc = "returned"

\* C19: search_products returns exactly the names of the all-products list
\* whose lower-cased name contains the lower-cased query, in the list's
\* order, with count the number of results and the query echoed unchanged.
C19_SearchFilter ==
    SearchReturned =>
        /\ Len(result.results) = Cardinality(Kept)
        /\ \A i \in Kept :
              result.results[Cardinality({ j \in Kept : j < i }) + 1]
                  = all_products[i]
        /\ result.count = Len(result.results)
        /\ result.query = query

\* A query typed with a capital letter finds a name spelled differently in
\* case, and leaves another name of the list out.
C19_Witness ==
    /\ SearchReturned
    /\ query = <<"P", "y">>
    /\ all_products = << <<"n", "o">>, <<"P", "Y", "n">> >>
    /\ result.results = << <<"P", "Y", "n">> >>
    /\ result.count = 1

-----------------------------------------------------------------------------
\* Vocabulary of C17.

\* the argument is missing, or present and empty
MissingOrEmpty(arguments, key) ==
    \/ arguments[key] = None
    \/ arguments[key] = Str(IF key = "product" THEN "" ELSE <<>>)

\* a call that cannot be served: a name that is not listed, or a required
\* argument missing or empty
Refused(call) ==
    \/ call.name \notin ToolNames
    \/ \E key \in RequiredArguments(call.name) :
          MissingOrEmpty(call.arguments, key)

ToolAnswered == eol_client /\ tool # None /\ payload # None

\* C17: once the client is initialized, handle_call_tool never raises; a
\* failure of the call (the client method raised, the tool name is unknown,
\* a required argument is missing or empty) is answered with one payload
\* holding the error text, the tool name and the arguments as received; a
\* refused call makes no catalog fetch.
C17_CallToolNeverRaises ==
    /\ (eol_client /\ payload # None) => payload.kind \in {"result", "error"}
    /\ (ToolAnswered /\ (Refused(tool) \/ pc = "raised"))
          => /\ payload.kind = "error"
             /\ payload.error # <<>>
             /\ payload.tool = tool.name
             /\ payload.arguments = tool.arguments
    /\ (ToolAnswered /\ Len(responses) >= 1
          /\ responses[Len(responses)].kind = "transport")
          => payload.kind = "error" /\ payload.error = <<"TransportError">>
    /\ (ToolAnswered /\ tool.name \notin ToolNames)
          => payload.error = <<"Unknown tool: ", tool.name>>
    /\ (eol_client /\ tool # None /\ Refused(tool))
          => requests = <<>> /\ responses = <<>>

\* A status check asked through the tool loses its connection on the list
\* fetch, and the call is answered with the error payload.
C17_Witness ==
    /\ ToolAnswered
    /\ tool.name = "eol_check_support_status"
    /\ tool.arguments.product = Str("python")
    /\ tool.arguments.version = Str(V31)
    /\ requests = <<"cycle", "list">>
    /\ responses[2].kind = "transport"
    /\ pc = "raised"
    /\ payload.kind = "error"
    /\ payload.arguments = tool.arguments

-----------------------------------------------------------------------------
\* Vocabulary of C15.

\* The frame a call for version v ends with when it is the only call.
Alone(v) ==
    LET start == [NewFrame EXCEPT !.pc = "cycle_lookup", !.version = v,
                                  !.requests = <<"cycle">>]
        first == FrameAfterCycle(start, catalog.cycles[v], catalog.today)
    IN  IF first.pc = "list_fetch"
          THEN FrameAfterList(first, catalog.list, catalog.today)
          ELSE first

Ended(c) == calls[c].pc \in {"returned", "raised"}

RECURSIVE SumOfFetches(_)
SumOfFetches(S) ==
    IF S = {} THEN 0
    ELSE LET c == CHOOSE x \in S : TRUE
         IN  Len(calls[c].requests) + SumOfFetches(S \ {c})

\* C15: against a fixed catalog and date, every call of any interleaving
\* ends as it would alone (same result or exception, same fetches), the
\* catalog serves one GET per fetch of each call, and calls for the same
\* version resolve to the same record.
C15_NoSharedState ==
    /\ \A c \in CallIds : Ended(c) => calls[c] = Alone(asked[c].version)
    /\ \A c \in CallIds :
          (asked[c] # NotAsked /\ ~Ended(c))
              => /\ calls[c].version = asked[c].version
                 /\ calls[c].requests
                      \in {<<"cycle">>, Alone(asked[c].version).requests}
    /\ fetches = SumOfFetches(CallIds)
    /\ \A c, d \in CallIds :
          (Ended(c) /\ Ended(d) /\ asked[c].version = asked[d].version)
              => calls[c].cycle_info = calls[d].cycle_info

\* Two calls overlapped: call 2 started while call 1 waited for its list;
\* call 1 resolved "3" by prefix to the record "3.1.1", call 2 got "3.1"
\* from the cycle lookup.
C15_Witness ==
    /\ asked[1].version = V3
    /\ asked[2] = [version |-> V31, during |-> {1}]
    /\ calls[1].pc = "returned" /\ calls[2].pc = "returned"
    /\ calls[1].requests = <<"cycle", "list">>
    /\ calls[1].result.found /\ calls[1].cycle_info.cycle = V311
    /\ calls[2].requests = <<"cycle">>
    /\ calls[2].result.found /\ calls[2].cycle_info.cycle = V31
    /\ fetches = 3

-----------------------------------------------------------------------------
\* C21: for a fixed record evaluated on later and later dates, is_eol never
\* goes from true back to false and is_supported never goes from false back
\* to true (both functions return a boolean on every date).
C21_MonotoneInTime ==
    /\ \A i \in 1..Len(evaluated) :
          /\ evaluated[i].is_supported.kind = "return"
          /\ evaluated[i].is_eol.kind = "return"
    /\ \A i, j \in 1..Len(evaluated) :
          i < j =>
            /\ evaluated[i].is_eol.val => evaluated[j].is_eol.val
            /\ ~evaluated[i].is_supported.val => ~evaluated[j].is_supported.val

\* A record with a support date and a later eol date is supported and not
\* end-of-life on the first date, neither on the second (past support, on
\* the eol day), and end-of-life on the third.
C21_Witness ==
    /\ record.support = DateStr("datetimeZ", 0)
    /\ record.eol = DateVal(1)
    /\ Len(evaluated) = 3
    /\ evaluated[1].is_supported.val /\ ~evaluated[1].is_eol.val
    /\ ~evaluated[2].is_supported.val /\ ~evaluated[2].is_eol.val
    /\ ~evaluated[3].is_supported.val /\ evaluated[3].is_eol.val

-----------------------------------------------------------------------------
\* Vocabulary of C22.

\* a returned result whose record has no usable support and a usable eol
FallbackResult ==
    /\ ReturnedFound
    /\ Unusable(result.cycle_info.support)
    /\ (result.cycle_info.eol.tag = "bool" \/ IsDate(result.cycle_info.eol))

\* C22: when support is absent or unparseable and eol is a boolean or a
\* parseable date, the result has is_supported = not is_eol.
C22_Complements ==
    FallbackResult => (result.is_supported <=> ~result.is_eol)

\* The same statement for the checks whose two evaluations read the same
\* day: it holds, so the pairs that are not complements come from a change
\* of day between the two evaluations only.
C22_ComplementsOnOneDay ==
    (FallbackResult /\ todaySup = todayEol)
        => (result.is_supported <=> ~result.is_eol)

-----------------------------------------------------------------------------
\* Vocabulary of C23.

ReadAnswered == eol_client /\ uri # NoURI /\ document # None

\* no catalog fetch of the read has failed
NoFetchFailed == \A i \in 1..Len(responses) : responses[i] = Http(200)

\* C23: once the client is initialized, reading a URI that
\* handle_list_resources lists gives a JSON document when no catalog fetch
\* fails, and never raises; the document of eol://products has count equal
\* to the number of products.
C23_ListedResourcesReadable ==
    /\ (ReadAnswered /\ uri \in ListedResources /\ NoFetchFailed)
          => document.kind = "document"
    /\ (ReadAnswered /\ uri = ProductsURI /\ responses = <<Http(200)>>)
          => /\ document.kind = "document"
             /\ document.text.count = Len(all_products)

====
